---- MODULE Spec2Model ----
(***************************************************************************)
(* Model of Property<T> (src/structs/property/property.h): an observable   *)
(* value with a validator, a coercion callback, change callbacks with      *)
(* reusable identifiers and one-hop bindings to other properties.          *)
(*                                                                         *)
(* T is modelled as the integers 0 .. MaxValue.  A Validator, a            *)
(* CoerceCallback and a ChangeCallback are supplied by the caller; the     *)
(* model draws them from small sets of named callables ("kinds").          *)
(***************************************************************************)
EXTENDS Integers, Sequences, FiniteSets, TLC

\* ------------------------------------------------------------------ bounds
MaxValue == 2      \* the values of T are 0 .. MaxValue
MaxFeatures == 2   \* size of a configuration of Spec
MaxChain == 3      \* size of a configuration of ChainSpec
MaxIDs == 3        \* callback identifiers minted in RegSpec
MaxLock == 2       \* size of a configuration of LockSpec

\* ------------------------------------------------------------- the universe
Props == {"A", "B", "C"}
Values == 0 .. MaxValue

Threads == {"t1", "t2"}
Free == "free"

\* An empty std::function is "none".
NoFn == "none"
ValidatorKinds == {"even"}
CoerceKinds == {"clamp"}
CallbackKinds == {"observe", "mutate"}
IDs == 0 .. MaxIDs

VARIABLES
    value,          \* m_value of each property
    validator,      \* m_validator of each property (NoFn when empty)
    coercer,        \* m_coerceCallback of each property (NoFn when empty)
    callbacks,      \* m_callbacks: a function from the ids in use to callables
    availableIDs,   \* m_availableIDs: the queue of released ids
    nextCallbackID, \* nextCallbackID
    bindings,       \* m_bindings
    log,            \* what the last call did: the call, the user callables it
                    \* invoked with their arguments, and what it returned
    mutex,          \* m_mutex of each property: the thread that holds it, or Free
    pc,             \* where each thread is in operator=
    this,           \* the property each thread is writing
    arg,            \* the caller's variable that newValue refers to
    todo,           \* the bindings NotifyBindings' loop has not visited yet
    binding         \* the loop variable of NotifyBindings

threads == <<mutex, pc, this, arg, todo, binding>>

vars == <<value, validator, coercer, callbacks, availableIDs, nextCallbackID,
          bindings, log, threads>>

\* ------------------------------------------------------------ user callables
\* Validator: bool(T& newValue).  "even" accepts the even values.
Accepts(k, v) == k = "even" => v % 2 = 0

\* CoerceCallback: void(T& newValue).  "clamp" clamps the value to at most 1.
Coerce(k, v) == IF k = "clamp" /\ v > 1 THEN 1 ELSE v

\* ChangeCallback: void(T& oldValue, T& newValue).  "observe" only reads its
\* arguments; "mutate" writes to both references.
Bump(v) == (v + 1) % (MaxValue + 1)
CallbackOld(k, oldValue) == IF k = "mutate" THEN Bump(oldValue) ELSE oldValue
CallbackNew(k, newValue) == IF k = "mutate" THEN Bump(newValue) ELSE newValue

\* function::target_type() of a callable: both callback kinds are free
\* functions of type void(*)(T&, T&).
TargetType(k) == IF k = NoFn THEN "void" ELSE "fnptr"

\* ------------------------------------------------------------------ helpers
Ev(e, p, i, x, y) == [ev |-> e, p |-> p, id |-> i, x |-> x, y |-> y]
B2N(b) == IF b THEN 1 ELSE 0

\* The orders in which a range-for may visit an unordered container.
Orders(S) ==
    {s \in [1 .. Cardinality(S) -> S] : \A i, j \in DOMAIN s : i # j => s[i] # s[j]}

Range(s) == {s[i] : i \in DOMAIN s}

EmptyMap == [i \in {} |-> NoFn]

\* ------------------------------------------------------------- construction
\* The size of a configuration: the validators and coercion callbacks set,
\* the pairs of properties with a binding between them, and the callback
\* identifiers minted.
Pairs == {{p, q} : p \in Props, q \in Props}
Features ==
    LET Sum(f) == f["A"] + f["B"] + f["C"]
    IN  Sum([p \in Props |-> B2N(validator[p] # NoFn)])
      + Sum([p \in Props |-> B2N(coercer[p] # NoFn)])
      + Cardinality({pq \in Pairs : /\ Cardinality(pq) = 2
                                    /\ \E p \in pq : (pq \ {p}) \cap bindings[p] # {}})
      + Sum(nextCallbackID)

\* A property constructed by Property(T value = T()) with the default value.
Default(p) == value[p] = 0 /\ validator[p] = NoFn /\ coercer[p] = NoFn

\* Every constructor: any initial value, with or without a validator and a
\* coercion callback.  (The two constructors that take no value leave
\* m_value default-initialized: any value.)
Construct ==
    /\ value \in [Props -> Values]
    /\ validator \in [Props -> ValidatorKinds \cup {NoFn}]
    /\ coercer \in [Props -> CoerceKinds \cup {NoFn}]
    /\ callbacks = [p \in Props |-> EmptyMap]
    /\ availableIDs = [p \in Props |-> <<>>]
    /\ nextCallbackID = [p \in Props |-> 0]
    /\ bindings = [p \in Props |-> {}]
    /\ log = <<>>
    /\ mutex = [p \in Props |-> Free]
    /\ pc = [t \in Threads |-> "idle"]
    /\ this = [t \in Threads |-> "A"]
    /\ arg = [t \in Threads |-> 0]
    /\ todo = [t \in Threads |-> {}]
    /\ binding = [t \in Threads |-> "A"]

\* ---------------------------------------------------------- the write path
\* Mutant: the test is dropped, every write runs the whole pipeline.
ChangedAlways(current, newValue) == TRUE

\* The test m_value != newValue that guards a write and a propagation step.
Changed(current, newValue) == current # newValue

\* Mutant: the validator is asked about the raw value, before coercion.
ValidateThenCoerce(p, newValue) ==
    LET coerced == Coerce(coercer[p], newValue)
        ok == validator[p] = NoFn \/ Accepts(validator[p], newValue)
    IN  [newValue |-> coerced,
         ok |-> ok,
         events |->
               (IF validator[p] # NoFn
                THEN <<Ev("validate", p, 0, newValue, B2N(ok))>> ELSE <<>>)
            \o (IF coercer[p] # NoFn
                THEN <<Ev("coerce", p, 0, newValue, coerced)>> ELSE <<>>)]

\* Mutant: the validator is called and its answer is ignored.
CoerceIgnoreValidator(p, newValue) ==
    LET coerced == Coerce(coercer[p], newValue)
        ok == validator[p] = NoFn \/ Accepts(validator[p], coerced)
    IN  [newValue |-> coerced,
         ok |-> TRUE,
         events |->
               (IF coercer[p] # NoFn
                THEN <<Ev("coerce", p, 0, newValue, coerced)>> ELSE <<>>)
            \o (IF validator[p] # NoFn
                THEN <<Ev("validate", p, 0, coerced, B2N(ok))>> ELSE <<>>)]

\* The coercion callback, if set, is applied to newValue in place; then the
\* validator, if set, is asked about newValue.
CoerceAndValidate(p, newValue) ==
    LET coerced == Coerce(coercer[p], newValue)
        ok == validator[p] = NoFn \/ Accepts(validator[p], coerced)
    IN  [newValue |-> coerced,
         ok |-> ok,
         events |->
               (IF coercer[p] # NoFn
                THEN <<Ev("coerce", p, 0, newValue, coerced)>> ELSE <<>>)
            \o (IF validator[p] # NoFn
                THEN <<Ev("validate", p, 0, coerced, B2N(ok))>> ELSE <<>>)]

\* NotifyCallbacks: every non-empty callback of the map is called, in the
\* map's iteration order, with references to the caller's oldValue and
\* newValue; what one callback writes to them the next one sees.
RECURSIVE NotifyCallbacks(_, _, _, _)
NotifyCallbacks(p, order, oldValue, newValue) ==
    IF order = <<>>
    THEN [events |-> <<>>, oldValue |-> oldValue, newValue |-> newValue]
    ELSE LET id == Head(order)
             k == callbacks[p][id]
         IN  IF k = NoFn
             THEN NotifyCallbacks(p, Tail(order), oldValue, newValue)
             ELSE LET rest == NotifyCallbacks(p, Tail(order),
                                              CallbackOld(k, oldValue),
                                              CallbackNew(k, newValue))
                  IN  [rest EXCEPT !.events =
                          <<Ev("callback", p, id, oldValue, newValue)>> \o @]

\* Mutant: the step assigns through the target's operator=, which notifies
\* the target's callbacks and its own bindings.
BindingStepCascade(target, vals, newValue) ==
    IF Changed(vals[target], newValue)
    THEN LET c == CoerceAndValidate(target, newValue)
         IN  [events |-> c.events \o
                  (IF c.ok
                   THEN [i \in 1 .. Cardinality(DOMAIN callbacks[target]) |->
                            Ev("callback", target, i - 1, vals[target], c.newValue)]
                   ELSE <<>>),
              value |-> IF c.ok
                        THEN [q \in Props |->
                                 IF q \in bindings[target] \cup {target}
                                 THEN c.newValue ELSE vals[q]]
                        ELSE vals,
              newValue |-> c.newValue]
    ELSE [events |-> <<>>, value |-> vals, newValue |-> newValue]

\* Mutant: the step stores the coerced value without asking the validator.
BindingStepUnvalidated(target, vals, newValue) ==
    IF Changed(vals[target], newValue)
    THEN LET c == CoerceAndValidate(target, newValue)
         IN  [events |-> c.events,
              value |-> [vals EXCEPT ![target] = c.newValue],
              newValue |-> c.newValue]
    ELSE [events |-> <<>>, value |-> vals, newValue |-> newValue]

\* The body of NotifyBindings' loop for one bound property: the target's
\* value and the value newValue refers to afterwards.
BindingStep(target, vals, newValue) ==
    IF Changed(vals[target], newValue)
    THEN LET c == CoerceAndValidate(target, newValue)
         IN  [events |-> c.events,
              value |-> IF c.ok THEN [vals EXCEPT ![target] = c.newValue] ELSE vals,
              newValue |-> c.newValue]
    ELSE [events |-> <<>>, value |-> vals, newValue |-> newValue]

\* NotifyBindings: the loop over m_bindings, in the set's iteration order.
RECURSIVE NotifyBindings(_, _, _)
NotifyBindings(order, vals, newValue) ==
    IF order = <<>>
    THEN [events |-> <<>>, value |-> vals]
    ELSE LET step == BindingStep(Head(order), vals, newValue)
             rest == NotifyBindings(Tail(order), step.value, step.newValue)
         IN  [events |-> step.events \o rest.events, value |-> rest.value]

\* operator=(T& newValue) run to completion by one thread.
Write(p, v) ==
    LET call == <<Ev("write", p, 0, v, B2N(Changed(value[p], v)))>>
        c == CoerceAndValidate(p, v)
    IN  /\ IF Changed(value[p], v)
           THEN IF c.ok
                THEN \E co \in Orders(DOMAIN callbacks[p]), bo \in Orders(bindings[p]) :
                        LET nc == NotifyCallbacks(p, co, value[p], c.newValue)
                            nb == NotifyBindings(bo, [value EXCEPT ![p] = c.newValue],
                                                 nc.newValue)
                        IN  /\ value' = nb.value
                            /\ log' = call \o c.events \o nc.events \o nb.events
                ELSE /\ value' = value
                     /\ log' = call \o c.events
           ELSE /\ value' = value
                /\ log' = call
        /\ UNCHANGED <<validator, coercer, callbacks, availableIDs,
                       nextCallbackID, bindings, threads>>

\* ------------------------------------------------------ the callback registry
\* Mutant: the most recently released identifier is reused.
Back(queue) == queue[Len(queue)]

\* queue::front()
Front(queue) == Head(queue)

AddChangeCallback(p, callback) ==
    LET fresh == availableIDs[p] = <<>>
        id == IF fresh THEN nextCallbackID[p] ELSE Front(availableIDs[p])
    IN  /\ nextCallbackID' =
               IF fresh THEN [nextCallbackID EXCEPT ![p] = @ + 1] ELSE nextCallbackID
        /\ availableIDs' =
               IF fresh THEN availableIDs ELSE [availableIDs EXCEPT ![p] = Tail(@)]
        /\ callbacks' = [callbacks EXCEPT ![p] =
               [i \in DOMAIN @ \cup {id} |-> IF i = id THEN callback ELSE @[i]]]
        /\ log' = <<Ev("add", p, id, 0, 0)>>
        /\ UNCHANGED <<value, validator, coercer, bindings, threads>>

\* Mutant: erase leaves the map as it is.
EraseNothing(map, id) == map

\* unordered_map::erase(key): the map afterwards, and the count it returns.
Erase(map, id) == [i \in DOMAIN map \ {id} |-> map[i]]

\* Mutant: the identifier is released whether or not a callback had it.
ErasedAlways(map, id) == TRUE

Erased(map, id) == id \in DOMAIN map

\* RemoveChangeCallback(CallbackID id)
RemoveChangeCallbackID(p, id) ==
    /\ IF Erased(callbacks[p], id)
       THEN /\ callbacks' = [callbacks EXCEPT ![p] = Erase(@, id)]
            /\ availableIDs' = [availableIDs EXCEPT ![p] = Append(@, id)]
       ELSE UNCHANGED <<callbacks, availableIDs>>
    /\ log' = <<Ev("removeID", p, id, 0, 0)>>
    /\ UNCHANGED <<value, validator, coercer, nextCallbackID, bindings, threads>>

\* The test of RemoveChangeCallback(ChangeCallback): the target types are
\* equal and target<void(T&, T&)>() is the same pointer.  No callable has
\* the function type void(T&, T&) as its target type, so target<> is null
\* on both sides and the test is the one on the target types.
SameCallback(a, b) == TargetType(a) = TargetType(b)

\* The first entry, in iteration order, that passes the test (or -1).
RECURSIVE FirstMatch(_, _, _)
FirstMatch(map, order, callback) ==
    IF order = <<>> THEN -1
    ELSE IF SameCallback(callback, map[Head(order)]) THEN Head(order)
    ELSE FirstMatch(map, Tail(order), callback)

\* RemoveChangeCallback(ChangeCallback callback)
RemoveChangeCallbackFn(p, callback) ==
    /\ \E order \in Orders(DOMAIN callbacks[p]) :
          LET id == FirstMatch(callbacks[p], order, callback)
          IN  IF id # -1
              THEN /\ availableIDs' = [availableIDs EXCEPT ![p] = Append(@, id)]
                   /\ callbacks' = [callbacks EXCEPT ![p] = Erase(@, id)]
              ELSE UNCHANGED <<callbacks, availableIDs>>
    /\ log' = <<Ev("removeFn", p, 0, 0, 0)>>
    /\ UNCHANGED <<value, validator, coercer, nextCallbackID, bindings, threads>>

\* ------------------------------------------------------------------ bindings
Insert(bs, p, other) == [bs EXCEPT ![p] = @ \cup {other}]
EraseBind(bs, p, other) == [bs EXCEPT ![p] = @ \ {other}]

BindFrame ==
    /\ log' = <<>>
    /\ UNCHANGED <<value, validator, coercer, callbacks, availableIDs,
                   nextCallbackID, threads>>

\* Mutant: binding also gives the bound property the value of this one.
AddOneWayBindAndCopy(p, other) ==
    /\ bindings' = Insert(bindings, p, other)
    /\ value' = [value EXCEPT ![other] = value[p]]
    /\ log' = <<>>
    /\ UNCHANGED <<validator, coercer, callbacks, availableIDs,
                   nextCallbackID, threads>>

AddOneWayBind(p, other) ==
    bindings' = Insert(bindings, p, other) /\ BindFrame

RemoveOneWayBind(p, other) ==
    bindings' = EraseBind(bindings, p, other) /\ BindFrame

\* Mutant: the binding is added on this property instead of the other one.
AddOneWayToSourceBindReversed(p, other) ==
    bindings' = Insert(bindings, p, other) /\ BindFrame

AddOneWayToSourceBind(p, other) ==
    bindings' = Insert(bindings, other, p) /\ BindFrame

RemoveOneWayToSourceBind(p, other) ==
    bindings' = EraseBind(bindings, other, p) /\ BindFrame

AddBind(p, other) ==
    bindings' = Insert(Insert(bindings, p, other), other, p) /\ BindFrame

RemoveBind(p, other) ==
    bindings' = EraseBind(EraseBind(bindings, p, other), other, p) /\ BindFrame

\* ------------------------------------------------------------------- setters
SetValidator(p, v) ==
    /\ validator' = [validator EXCEPT ![p] = v]
    /\ log' = <<>>
    /\ UNCHANGED <<value, coercer, callbacks, availableIDs, nextCallbackID,
                   bindings, threads>>

SetCoerceCallback(p, c) ==
    /\ coercer' = [coercer EXCEPT ![p] = c]
    /\ log' = <<>>
    /\ UNCHANGED <<value, validator, callbacks, availableIDs, nextCallbackID,
                   bindings, threads>>

\* ------------------------------------------------------ the sequential program
\* One thread constructs properties A and B in any way (C is default
\* constructed and left alone) and calls their operations in any order with
\* any arguments.  A property is not bound to itself here; the size of the
\* configuration is bounded by MaxFeatures.
Live == {"A", "B"}

Init == Construct /\ Default("C") /\ Features <= MaxFeatures

Budget == Features' <= MaxFeatures

Next ==
    \/ \E p \in Live, v \in Values : Write(p, v)
    \/ \E p \in Live, k \in CallbackKinds : AddChangeCallback(p, k) /\ Budget
    \/ \E p \in Live, id \in 0 .. MaxFeatures : RemoveChangeCallbackID(p, id)
    \/ \E p \in Live, k \in CallbackKinds : RemoveChangeCallbackFn(p, k)
    \/ \E p \in Live : \E q \in Live \ {p} : AddOneWayBind(p, q) /\ Budget
    \/ \E p \in Live : \E q \in Live \ {p} : RemoveOneWayBind(p, q)
    \/ \E p \in Live : \E q \in Live \ {p} : AddBind(p, q) /\ Budget
    \/ \E p \in Live, k \in ValidatorKinds \cup {NoFn} : SetValidator(p, k) /\ Budget
    \/ \E p \in Live, k \in CoerceKinds \cup {NoFn} : SetCoerceCallback(p, k) /\ Budget

Spec == Init /\ [][Next]_vars

\* ------------------------------------------------ a chain of three properties
\* One thread constructs A, B and C with no validator or coercion callback,
\* binds them one way in any shape (cycles included), adds callbacks and
\* writes.  Without validators, coercion callbacks and callbacks that write
\* to their arguments the code only copies and compares the values, so two
\* of them are enough.
ChainValues == {0, MaxValue}

ChainInit ==
    /\ Construct
    /\ \A p \in Props : value[p] \in ChainValues /\ validator[p] = NoFn /\ coercer[p] = NoFn

ChainBudget == Features' <= MaxChain

ChainNext ==
    \/ \E p \in Props, v \in ChainValues : Write(p, v)
    \/ \E p \in Props : AddChangeCallback(p, "observe") /\ ChainBudget
    \/ \E p \in Props : \E q \in Props \ {p} : AddOneWayBind(p, q) /\ ChainBudget

ChainSpec == ChainInit /\ [][ChainNext]_vars

\* ------------------------------------------------------- the registry alone
\* One thread adds and removes callbacks of the default-constructed A.
RegInit == Construct /\ \A p \in Props : Default(p)

RegNext ==
    \/ \E k \in CallbackKinds \cup {NoFn} :
          nextCallbackID["A"] + B2N(availableIDs["A"] = <<>>) <= MaxIDs
          /\ AddChangeCallback("A", k)
    \/ \E id \in IDs : RemoveChangeCallbackID("A", id)
    \/ \E k \in CallbackKinds \cup {NoFn} : RemoveChangeCallbackFn("A", k)

RegSpec == RegInit /\ [][RegNext]_vars

\* ---------------------------------------------------------- threads writing
\* operator= step by step.  A step is what a thread does between two
\* acquisitions of a mutex; a thread that finds the mutex held waits.

\* Thread t leaves operator=: its parameters and locals are gone.
Return(t) ==
    /\ pc' = [pc EXCEPT ![t] = "idle"]
    /\ this' = [this EXCEPT ![t] = "A"]
    /\ arg' = [arg EXCEPT ![t] = 0]
    /\ todo' = [todo EXCEPT ![t] = {}]
    /\ binding' = [binding EXCEPT ![t] = "A"]

\* The caller: thread t calls p = v.
Call(t, p, v) ==
    /\ pc[t] = "idle"
    /\ pc' = [pc EXCEPT ![t] = "lock"]
    /\ this' = [this EXCEPT ![t] = p]
    /\ arg' = [arg EXCEPT ![t] = v]
    /\ UNCHANGED <<value, validator, coercer, callbacks, availableIDs,
                   nextCallbackID, bindings, log, mutex, todo, binding>>

\* lock_guard<mutex> lock(m_mutex)
Lock(t) ==
    /\ pc[t] = "lock"
    /\ mutex[this[t]] = Free
    /\ mutex' = [mutex EXCEPT ![this[t]] = t]
    /\ pc' = [pc EXCEPT ![t] = "assign"]
    /\ UNCHANGED <<value, validator, coercer, callbacks, availableIDs,
                   nextCallbackID, bindings, log, this, arg, todo, binding>>

\* The body of operator= up to the loop of NotifyBindings.
Assign(t) ==
    LET p == this[t]
        c == CoerceAndValidate(p, arg[t])
    IN  /\ pc[t] = "assign"
        /\ IF Changed(value[p], arg[t])
           THEN IF c.ok
                THEN \E co \in Orders(DOMAIN callbacks[p]) :
                        LET nc == NotifyCallbacks(p, co, value[p], c.newValue)
                        IN  /\ value' = [value EXCEPT ![p] = c.newValue]
                            /\ arg' = [arg EXCEPT ![t] = nc.newValue]
                            /\ todo' = [todo EXCEPT ![t] = bindings[p]]
                            /\ pc' = [pc EXCEPT ![t] = "notify"]
                ELSE /\ arg' = [arg EXCEPT ![t] = c.newValue]
                     /\ pc' = [pc EXCEPT ![t] = "unlock"]
                     /\ UNCHANGED <<value, todo>>
           ELSE /\ pc' = [pc EXCEPT ![t] = "unlock"]
                /\ UNCHANGED <<value, arg, todo>>
        /\ UNCHANGED <<validator, coercer, callbacks, availableIDs,
                       nextCallbackID, bindings, log, mutex, this, binding>>

\* for (Property<T>* binding : m_bindings): the next binding, or the end.
NextBinding(t) ==
    /\ pc[t] = "notify"
    /\ IF todo[t] = {}
       THEN /\ pc' = [pc EXCEPT ![t] = "unlock"]
            /\ UNCHANGED <<todo, binding>>
       ELSE \E b \in todo[t] :
               /\ binding' = [binding EXCEPT ![t] = b]
               /\ todo' = [todo EXCEPT ![t] = @ \ {b}]
               /\ pc' = [pc EXCEPT ![t] = "lockBinding"]
    /\ UNCHANGED <<value, validator, coercer, callbacks, availableIDs,
                   nextCallbackID, bindings, log, mutex, this, arg>>

\* Mutant: NotifyBindings goes on to the binding without locking its mutex.
LockBindingSkipped(t) ==
    /\ pc[t] = "lockBinding"
    /\ mutex[binding[t]] # t
    /\ pc' = [pc EXCEPT ![t] = "step"]
    /\ UNCHANGED <<value, validator, coercer, callbacks, availableIDs,
                   nextCallbackID, bindings, log, mutex, this, arg, todo, binding>>

\* lock_guard<mutex> lock(binding->m_mutex), the mutex being free or held
\* by another thread.
LockBinding(t) ==
    /\ pc[t] = "lockBinding"
    /\ mutex[binding[t]] = Free
    /\ mutex' = [mutex EXCEPT ![binding[t]] = t]
    /\ pc' = [pc EXCEPT ![t] = "step"]
    /\ UNCHANGED <<value, validator, coercer, callbacks, availableIDs,
                   nextCallbackID, bindings, log, this, arg, todo, binding>>

\* lock_guard<mutex> lock(binding->m_mutex), the thread holding that mutex
\* already (the property is bound to itself).  std::mutex leaves this
\* undefined: the thread waits for ever (it takes no step), or lock() throws
\* and operator= is left with its lock released, or lock() returns having
\* counted a second lock by the owner.
RelockOwned(t) ==
    /\ pc[t] = "lockBinding"
    /\ mutex[binding[t]] = t
    /\ \/ /\ mutex' = [mutex EXCEPT ![this[t]] = Free]
          /\ Return(t)
       \/ /\ pc' = [pc EXCEPT ![t] = "step"]
          /\ UNCHANGED <<mutex, this, arg, todo, binding>>
    /\ UNCHANGED <<value, validator, coercer, callbacks, availableIDs,
                   nextCallbackID, bindings, log>>

\* The body of the loop, and the release of the binding's mutex; of two
\* locks by the owner one is left.
Propagate(t) ==
    LET step == BindingStep(binding[t], value, arg[t])
    IN  /\ pc[t] = "step"
        /\ value' = step.value
        /\ arg' = [arg EXCEPT ![t] = step.newValue]
        /\ mutex' = [mutex EXCEPT ![binding[t]] =
                         IF binding[t] = this[t] THEN t ELSE Free]
        /\ pc' = [pc EXCEPT ![t] = "notify"]
        /\ UNCHANGED <<validator, coercer, callbacks, availableIDs,
                       nextCallbackID, bindings, log, this, todo, binding>>

\* return *this: the lock_guard releases m_mutex.
Unlock(t) ==
    /\ pc[t] = "unlock"
    /\ mutex' = [mutex EXCEPT ![this[t]] = Free]
    /\ Return(t)
    /\ UNCHANGED <<value, validator, coercer, callbacks, availableIDs,
                   nextCallbackID, bindings, log>>

\* Two threads write A and B; the bindings between A and B (a property may
\* be bound to itself) are edited while no write is under way, as the
\* unsynchronized m_bindings requires.
Quiet == \A t \in Threads : pc[t] = "idle"

ConcInit ==
    /\ Construct
    /\ \A p \in Props : value[p] \in ChainValues /\ validator[p] = NoFn /\ coercer[p] = NoFn

ConcNext ==
    \/ \E t \in Threads, p \in Live, v \in ChainValues : Call(t, p, v)
    \/ \E t \in Threads : Lock(t)
    \/ \E t \in Threads : Assign(t)
    \/ \E t \in Threads : NextBinding(t)
    \/ \E t \in Threads : LockBinding(t)
    \/ \E t \in Threads : RelockOwned(t)
    \/ \E t \in Threads : Propagate(t)
    \/ \E t \in Threads : Unlock(t)
    \/ \E p \in Live, q \in Live : Quiet /\ AddOneWayBind(p, q)
    \/ \E p \in Live, q \in Live : Quiet /\ RemoveOneWayBind(p, q)
    \/ \E p \in Live, q \in Live : Quiet /\ AddBind(p, q)

ConcSpec == ConcInit /\ [][ConcNext]_vars

\* --------------------------------------------- threads calling every operation
\* The operations that lock m_mutex for their whole body, step by step: the
\* call with its lock_guard, the body, and Unlock at the return.  A thread
\* that finds the mutex held waits in the call, having done nothing yet.
\* The argument of the call does not depend on the state; it is drawn where
\* the body uses it.
LockedBodies == {"add", "removeID", "removeFn", "setValidator", "setCoerce"}

\* Thread t calls an operation of p and locks p's mutex: body is where the
\* thread is next.
CallLocked(t, p, body) ==
    /\ pc[t] = "idle"
    /\ mutex[p] = Free
    /\ mutex' = [mutex EXCEPT ![p] = t]
    /\ pc' = [pc EXCEPT ![t] = body]
    /\ this' = [this EXCEPT ![t] = p]
    /\ UNCHANGED <<value, validator, coercer, callbacks, availableIDs,
                   nextCallbackID, bindings, log, arg, todo, binding>>

\* What a body leaves alone, and where it goes.
BodyFrame(t) ==
    /\ pc' = [pc EXCEPT ![t] = "unlock"]
    /\ UNCHANGED <<value, bindings, log, mutex, this, arg, todo, binding>>

\* The body of AddChangeCallback.
DoAddChangeCallback(t, callback) ==
    LET p == this[t]
        fresh == availableIDs[p] = <<>>
        id == IF fresh THEN nextCallbackID[p] ELSE Front(availableIDs[p])
    IN  /\ pc[t] = "add"
        /\ nextCallbackID' =
               IF fresh THEN [nextCallbackID EXCEPT ![p] = @ + 1] ELSE nextCallbackID
        /\ availableIDs' =
               IF fresh THEN availableIDs ELSE [availableIDs EXCEPT ![p] = Tail(@)]
        /\ callbacks' = [callbacks EXCEPT ![p] =
               [i \in DOMAIN @ \cup {id} |-> IF i = id THEN callback ELSE @[i]]]
        /\ UNCHANGED <<validator, coercer>>
        /\ BodyFrame(t)

\* The body of RemoveChangeCallback(CallbackID id).
DoRemoveChangeCallbackID(t, id) ==
    LET p == this[t]
    IN  /\ pc[t] = "removeID"
        /\ IF Erased(callbacks[p], id)
           THEN /\ callbacks' = [callbacks EXCEPT ![p] = Erase(@, id)]
                /\ availableIDs' = [availableIDs EXCEPT ![p] = Append(@, id)]
           ELSE UNCHANGED <<callbacks, availableIDs>>
        /\ UNCHANGED <<validator, coercer, nextCallbackID>>
        /\ BodyFrame(t)

\* The body of RemoveChangeCallback(ChangeCallback callback).
DoRemoveChangeCallbackFn(t, callback) ==
    LET p == this[t]
    IN  /\ pc[t] = "removeFn"
        /\ \E order \in Orders(DOMAIN callbacks[p]) :
              LET id == FirstMatch(callbacks[p], order, callback)
              IN  IF id # -1
                  THEN /\ availableIDs' = [availableIDs EXCEPT ![p] = Append(@, id)]
                       /\ callbacks' = [callbacks EXCEPT ![p] = Erase(@, id)]
                  ELSE UNCHANGED <<callbacks, availableIDs>>
        /\ UNCHANGED <<validator, coercer, nextCallbackID>>
        /\ BodyFrame(t)

\* The body of SetValidator.
DoSetValidator(t, v) ==
    /\ pc[t] = "setValidator"
    /\ validator' = [validator EXCEPT ![this[t]] = v]
    /\ UNCHANGED <<coercer, callbacks, availableIDs, nextCallbackID>>
    /\ BodyFrame(t)

\* The body of SetCoerceCallback.
DoSetCoerceCallback(t, c) ==
    /\ pc[t] = "setCoerce"
    /\ coercer' = [coercer EXCEPT ![this[t]] = c]
    /\ UNCHANGED <<validator, callbacks, availableIDs, nextCallbackID>>
    /\ BodyFrame(t)

\* Two threads write A and B and call the other locking operations of A in
\* any interleaving; the bindings between A and B (a property may be bound
\* to itself) are edited while no call is under way.  A call that may
\* enlarge the configuration is made while the configuration, with the
\* calls under way, is below MaxLock.
Pending == Cardinality({t \in Threads : pc[t] \in LockedBodies})

\* The size of a configuration: a property bound to itself counts as well.
LockSize == Features + Cardinality({p \in Props : p \in bindings[p]})

Room == LockSize + Pending < MaxLock

LockInit == ConcInit

LockNext ==
    \/ \E t \in Threads, p \in Live, v \in ChainValues : Call(t, p, v)
    \/ \E t \in Threads : Lock(t)
    \/ \E t \in Threads : Assign(t)
    \/ \E t \in Threads : NextBinding(t)
    \/ \E t \in Threads : LockBinding(t)
    \/ \E t \in Threads : RelockOwned(t)
    \/ \E t \in Threads : Propagate(t)
    \/ \E t \in Threads : Unlock(t)
    \/ \E t \in Threads :
          \/ Room /\ CallLocked(t, "A", "add")
          \/ CallLocked(t, "A", "removeID")
          \/ CallLocked(t, "A", "removeFn")
          \/ Room /\ CallLocked(t, "A", "setValidator")
          \/ Room /\ CallLocked(t, "A", "setCoerce")
    \/ \E t \in Threads : DoAddChangeCallback(t, "observe")
    \/ \E t \in Threads, id \in 0 .. MaxLock : DoRemoveChangeCallbackID(t, id)
    \/ \E t \in Threads : DoRemoveChangeCallbackFn(t, "observe")
    \/ \E t \in Threads, k \in ValidatorKinds \cup {NoFn} : DoSetValidator(t, k)
    \/ \E t \in Threads, k \in CoerceKinds \cup {NoFn} : DoSetCoerceCallback(t, k)
    \/ \E p \in Live, q \in Live : Quiet /\ AddOneWayBind(p, q) /\ LockSize' <= MaxLock
    \/ \E p \in Live, q \in Live : Quiet /\ RemoveOneWayBind(p, q)

LockSpec == LockInit /\ [][LockNext]_vars

\* ------------------------------------------------------- the bindings alone
\* One thread constructs A, B and C with any values and edits their bindings
\* with the six binding operations, with any arguments: the argument may be
\* the property itself.
BindInit == ChainInit

BindNext ==
    \/ \E p \in Props, q \in Props : AddOneWayBind(p, q)
    \/ \E p \in Props, q \in Props : RemoveOneWayBind(p, q)
    \/ \E p \in Props, q \in Props : AddOneWayToSourceBind(p, q)
    \/ \E p \in Props, q \in Props : RemoveOneWayToSourceBind(p, q)
    \/ \E p \in Props, q \in Props : AddBind(p, q)
    \/ \E p \in Props, q \in Props : RemoveBind(p, q)

BindSpec == BindInit /\ [][BindNext]_vars

\* ==================================================================== claims
\* What the log of a call says.
IsWrite(l) == l # <<>> /\ l[1].ev = "write"
IsAdd(l) == l # <<>> /\ l[1].ev = "add"
CallbackCalls(l) == {i \in DOMAIN l : l[i].ev = "callback"}
CallsOf(l, p, id) == {i \in CallbackCalls(l) : l[i].p = p /\ l[i].id = id}

\* The validator of p is set and rejects what the coercion callback of p
\* makes of v.
Rejects(p, v) == validator[p] # NoFn /\ ~Accepts(validator[p], Coerce(coercer[p], v))

------------------------------------------------------------------------------
\* C1: a write of a value that differs from the current one and that the
\* validator rejects (after coercion) leaves the property's value as it was,
\* invokes no callback and changes the value of no bound property.
C1_RejectedWriteChangesNothing ==
    [][IsWrite(log') =>
         LET p == log'[1].p
             v == log'[1].x
         IN  (value[p] # v /\ Rejects(p, v)) =>
                 /\ value'[p] = value[p]
                 /\ CallbackCalls(log') = {}
                 /\ \A q \in bindings[p] : value'[q] = value[q]]_vars

\* A rejected write to a property that has a callback registered.
C1_Witness ==
    /\ IsWrite(log)
    /\ log[1].y = 1
    /\ \E i \in DOMAIN log :
          log[i].ev = "validate" /\ log[i].p = log[1].p /\ log[i].y = 0
    /\ DOMAIN callbacks[log[1].p] # {}

\* C2: a write of the current value calls neither the coercion callback nor
\* the validator nor any callback, and changes nothing of any property.
C2_EqualWriteDoesNothing ==
    [][IsWrite(log') =>
         LET p == log'[1].p
             v == log'[1].x
         IN  value[p] = v =>
                 /\ Len(log') = 1
                 /\ UNCHANGED <<value, validator, coercer, callbacks,
                                availableIDs, nextCallbackID, bindings>>]_vars

\* A write of the current value to a property with a validator and a callback.
C2_Witness ==
    /\ IsWrite(log)
    /\ log[1].y = 0
    /\ value[log[1].p] = log[1].x
    /\ validator[log[1].p] # NoFn
    /\ DOMAIN callbacks[log[1].p] # {}

\* C3: with a coercion callback and a validator set, a write of a value that
\* differs from the current one first coerces, then asks the validator about
\* the coerced value, and stores the coerced value when the validator accepts.
C3_ValidatorSeesCoercedValue ==
    [][IsWrite(log') =>
         LET p == log'[1].p
             v == log'[1].x
             c == Coerce(coercer[p], v)
         IN  (value[p] # v /\ coercer[p] # NoFn /\ validator[p] # NoFn) =>
                 /\ Len(log') >= 3
                 /\ log'[2] = Ev("coerce", p, 0, v, c)
                 /\ log'[3] = Ev("validate", p, 0, c, B2N(Accepts(validator[p], c)))
                 /\ Accepts(validator[p], c) => value'[p] = c]_vars

\* A write whose coerced value differs from the raw one and gets another
\* verdict from the validator than the raw one would.
C3_Witness ==
    /\ IsWrite(log)
    /\ Len(log) >= 3
    /\ log[2].ev = "coerce" /\ log[2].x # log[2].y
    /\ log[3].ev = "validate"
    /\ log[3].y # B2N(Accepts(validator[log[1].p], log[2].x))

\* C4: an accepted write stores the new value and calls every registered
\* callback exactly once with (the value before the write, the value stored).
C4_EachCallbackOnceWithOldAndNew ==
    [][IsWrite(log') =>
         LET p == log'[1].p
             v == log'[1].x
             c == Coerce(coercer[p], v)
         IN  (value[p] # v /\ ~Rejects(p, v)) =>
                 /\ value'[p] = c
                 /\ \A id \in DOMAIN callbacks[p] :
                       /\ Cardinality(CallsOf(log', p, id)) = 1
                       /\ \A i \in CallsOf(log', p, id) :
                             log'[i].x = value[p] /\ log'[i].y = c]_vars

\* C5: AddChangeCallback returns the front of the queue of released
\* identifiers when there is one (and takes it off the queue), and otherwise
\* returns nextCallbackID and increments it.
C5_AddReusesOldestReleased ==
    [][IsAdd(log') =>
         LET p == log'[1].p
             id == log'[1].id
         IN  /\ id \in DOMAIN callbacks'[p]
             /\ IF availableIDs[p] # <<>>
                THEN /\ id = Head(availableIDs[p])
                     /\ availableIDs'[p] = Tail(availableIDs[p])
                     /\ nextCallbackID' = nextCallbackID
                ELSE /\ id = nextCallbackID[p]
                     /\ nextCallbackID'[p] = nextCallbackID[p] + 1]_vars

\* Identifiers 0 and 1 were released, 1 first; the add got 1 and left 0.
C5_Witness ==
    /\ IsAdd(log)
    /\ log[1].id = 1
    /\ availableIDs[log[1].p] = <<0>>
    /\ nextCallbackID[log[1].p] = 2

\* C6: a write to a property changes no value but its own and those of the
\* properties in its bindings, and calls no callback but its own: what is
\* bound to a bound property is not reached.
C6_PropagationIsOneHop ==
    [][IsWrite(log') =>
         LET a == log'[1].p
         IN  /\ \A c \in Props \ ({a} \cup bindings[a]) : value'[c] = value[c]
             /\ \A i \in CallbackCalls(log') : log'[i].p = a]_vars

\* A -> B -> C with a callback on C: the write reached B and not C.
C6_Witness ==
    /\ IsWrite(log)
    /\ log[1].y = 1
    /\ \E a, b, c \in Props :
          /\ a = log[1].p /\ a # b /\ b # c /\ a # c
          /\ b \in bindings[a] /\ c \in bindings[b] /\ c \notin bindings[a]
          /\ value[b] = log[1].x /\ value[c] # log[1].x
          /\ DOMAIN callbacks[c] # {}

\* C7: with A and B bound two ways and no validator or coercion callback on
\* the target, an accepted write to either one leaves the other holding the
\* value stored, calls each callback of the written property once and calls
\* no callback of the other.
C7_TwoWayBindSymmetry ==
    [][IsWrite(log') =>
         LET p == log'[1].p
             v == log'[1].x
         IN  \A q \in bindings[p] :
                (/\ p \in bindings[q]
                 /\ validator[q] = NoFn /\ coercer[q] = NoFn
                 /\ value[p] # v /\ ~Rejects(p, v)) =>
                    /\ value'[q] = value'[p]
                    /\ \A id \in DOMAIN callbacks[p] :
                          Cardinality(CallsOf(log', p, id)) = 1
                    /\ \A i \in CallbackCalls(log') : log'[i].p # q]_vars

\* C8 as stated: a property with a validator always holds a value that the
\* validator accepts.
C8_ValueAlwaysValid ==
    \A p \in Props : validator[p] # NoFn => Accepts(validator[p], value[p])

\* C8 amended: a step that changes the value of a property with a validator
\* stores a value that the validator accepts.
C8_StoredValuesAreValid ==
    [][\A p \in Props :
          (value'[p] # value[p] /\ validator[p] # NoFn) =>
              Accepts(validator[p], value'[p])]_vars

\* A write changed the value of a property whose validator was asked.
C8_Witness ==
    /\ IsWrite(log)
    /\ Len(log) >= 2
    /\ log[2].ev = "validate" /\ log[2].p = log[1].p /\ log[2].y = 1
    /\ value[log[1].p] = log[2].x

\* C9: no identifier is both a key of m_callbacks and in m_availableIDs.
C9_UsedAndReleasedDisjoint ==
    \A p \in Props : DOMAIN callbacks[p] \cap Range(availableIDs[p]) = {}

\* A removal by callable left identifiers in use and identifiers released.
C9_Witness ==
    /\ log # <<>> /\ log[1].ev = "removeFn"
    /\ DOMAIN callbacks["A"] # {}
    /\ availableIDs["A"] # <<>>

\* C10, in particular: two threads writing are never each waiting for a
\* mutex the other holds (neither would ever return).
C10_NoMutualBlock ==
    \A t, u \in Threads :
        ~(/\ t # u
          /\ pc[t] = "lockBinding" /\ mutex[binding[t]] = u
          /\ pc[u] = "lockBinding" /\ mutex[binding[u]] = t)

\* C11: whatever binding operations are called, with whatever arguments, no
\* property is a member of its own m_bindings.
C11_NoSelfBinding ==
    \A p \in Props : p \notin bindings[p]

\* C12: a write of a value that differs from the current one, and that the
\* coercion callback turns into the current one, changes the value of no
\* property (bound ones included), changes nothing else and calls no
\* callback.
C12_CoercedEqualWriteIsRejected ==
    [][IsWrite(log') =>
         LET p == log'[1].p
             v == log'[1].x
         IN  (value[p] # v /\ Coerce(coercer[p], v) = value[p]) =>
                 /\ UNCHANGED <<value, validator, coercer, callbacks,
                                availableIDs, nextCallbackID, bindings>>
                 /\ CallbackCalls(log') = {}]_vars

\* C13: RemoveChangeCallback(id) with an id that is not a key of m_callbacks
\* leaves m_callbacks, m_availableIDs and nextCallbackID as they were; with
\* an id that is a key it removes that entry and no other, and pushes the id
\* at the back of m_availableIDs.
C13_RemoveByID ==
    [][(log' # <<>> /\ log'[1].ev = "removeID") =>
         LET p == log'[1].p
             id == log'[1].id
         IN  /\ nextCallbackID' = nextCallbackID
             /\ \A q \in Props \ {p} :
                   callbacks'[q] = callbacks[q] /\ availableIDs'[q] = availableIDs[q]
             /\ IF id \in DOMAIN callbacks[p]
                THEN /\ DOMAIN callbacks'[p] = DOMAIN callbacks[p] \ {id}
                     /\ \A i \in DOMAIN callbacks'[p] :
                           callbacks'[p][i] = callbacks[p][i]
                     /\ availableIDs'[p] = availableIDs[p] \o <<id>>
                ELSE /\ callbacks'[p] = callbacks[p]
                     /\ availableIDs'[p] = availableIDs[p]]_vars

\* A removal by identifier took one of several callbacks away and put its
\* identifier behind one released earlier.
C13_Witness ==
    /\ log # <<>> /\ log[1].ev = "removeID"
    /\ Len(availableIDs[log[1].p]) = 2
    /\ availableIDs[log[1].p][2] = log[1].id
    /\ DOMAIN callbacks[log[1].p] # {}

\* C14: p.AddOneWayBind(q) leaves every value, validator, coercion callback
\* and callback as it was and leaves the m_bindings of every property but p
\* as it was; p's m_bindings afterwards is what it was with q added, so it
\* is unchanged when q was already bound.
C14_AddOneWayBindFrame ==
    [][\A p \in Props : \A q \in Props \ {p} :
          AddOneWayBind(p, q) =>
              /\ UNCHANGED <<value, validator, coercer, callbacks,
                             availableIDs, nextCallbackID>>
              /\ \A r \in Props \ {p} : bindings'[r] = bindings[r]
              /\ bindings'[p] = bindings[p] \cup {q}
              /\ q \in bindings[p] => bindings' = bindings]_vars

\* A is bound to B alone, B to nothing, and they hold different values.
C14_Witness ==
    /\ bindings["A"] = {"B"}
    /\ bindings["B"] = {}
    /\ value["A"] # value["B"]

\* C15: for two distinct properties p and q, after p.AddBind(q) each is in
\* the other's m_bindings; after p.RemoveBind(q) neither is; and
\* p.AddOneWayToSourceBind(q) puts p in q's m_bindings and leaves p's
\* m_bindings as it was.
C15_TwoWayAndToSource ==
    [][\A p \in Props : \A q \in Props \ {p} :
          /\ AddBind(p, q) => (q \in bindings'[p] /\ p \in bindings'[q])
          /\ RemoveBind(p, q) => (q \notin bindings'[p] /\ p \notin bindings'[q])
          /\ AddOneWayToSourceBind(p, q) =>
                 (p \in bindings'[q] /\ bindings'[p] = bindings[p])]_vars

\* A and B are bound to each other and to nothing else; C is not bound.
C15_Witness ==
    /\ bindings["A"] = {"B"}
    /\ bindings["B"] = {"A"}
    /\ bindings["C"] = {}

\* What operator= hands to NotifyBindings: what the last callback called
\* left in newValue, or the coerced value c when no callback was called.
Offered(l, p, c) ==
    LET calls == CallbackCalls(l)
    IN  IF calls = {} THEN c
        ELSE LET last == CHOOSE i \in calls : \A j \in calls : j <= i
             IN  CallbackNew(callbacks[p][l[last].id], l[last].y)

\* C16: in an accepted write to p, the step into a bound property q (the
\* only one bound) stores no value that q's validator rejects; q keeps its
\* value when it equals the value offered or when its validator rejects what
\* its coercion callback makes of the value offered, and otherwise gets what
\* its coercion callback makes of the value offered.
C16_PropagationStep ==
    [][IsWrite(log') =>
         LET p == log'[1].p
             v == log'[1].x
             o == Offered(log', p, Coerce(coercer[p], v))
         IN  (value[p] # v /\ ~Rejects(p, v)) =>
                \A q \in bindings[p] :
                   (q # p /\ bindings[p] = {q}) =>
                      /\ (validator[q] # NoFn /\ value'[q] # value[q]) =>
                             Accepts(validator[q], value'[q])
                      /\ IF value[q] = o \/ Rejects(q, o)
                         THEN value'[q] = value[q]
                         ELSE value'[q] = Coerce(coercer[q], o)]_vars

\* An accepted write whose value the validator of the bound property
\* rejected: the bound property holds another value.
C16_Witness ==
    /\ IsWrite(log)
    /\ \E i \in DOMAIN log :
          /\ log[i].ev = "validate" /\ log[i].p # log[1].p /\ log[i].y = 0
          /\ log[i].p \in bindings[log[1].p]
          /\ value[log[i].p] # log[i].x

\* C17: after an accepted write to p, every bound property that has neither
\* a validator nor a coercion callback holds the value that p holds.
C17_BoundTargetGetsCommittedValue ==
    [][IsWrite(log') =>
         LET p == log'[1].p
             v == log'[1].x
         IN  (value[p] # v /\ ~Rejects(p, v)) =>
                \A q \in bindings[p] \ {p} :
                   (validator[q] = NoFn /\ coercer[q] = NoFn) =>
                       value'[q] = value'[p]]_vars

\* C18: a thread in operator= is never about to lock, in NotifyBindings, a
\* mutex that it holds already.
C18_NoRelock ==
    \A t \in Threads : ~(pc[t] = "lockBinding" /\ mutex[binding[t]] = t)

\* Where a thread is inside an operation, between its lock_guard and its
\* return.
InsidePcs == LockedBodies \cup {"assign", "notify", "lockBinding", "step", "unlock"}

\* C19: every step that changes the value, the callbacks, the released
\* identifiers, nextCallbackID, the validator or the coercion callback of a
\* property is taken by a thread that holds the mutex of that property; a
\* thread inside an operation of a property holds its mutex until the
\* operation returns, and a thread in the body of NotifyBindings' loop holds
\* the mutex of the binding; so two threads are never inside operations of
\* the same property.
C19_ModifiedUnderLock ==
    [][/\ \A p \in Props :
             (\/ value'[p] # value[p]
              \/ callbacks'[p] # callbacks[p]
              \/ availableIDs'[p] # availableIDs[p]
              \/ nextCallbackID'[p] # nextCallbackID[p]
              \/ validator'[p] # validator[p]
              \/ coercer'[p] # coercer[p]) =>
                 \E t \in Threads : mutex[p] = t /\ pc'[t] # pc[t]
       /\ \A t \in Threads :
             /\ pc'[t] \in InsidePcs => mutex'[this'[t]] = t
             /\ pc'[t] = "step" => mutex'[binding'[t]] = t
       /\ \A t \in Threads : \A u \in Threads \ {t} :
             (pc'[t] \in InsidePcs /\ pc'[u] \in InsidePcs) => this'[t] # this'[u]]_vars

\* One thread is in the body of SetValidator of A while the other, writing
\* B, has stored B's new value and waits for the mutex of the binding A.
C19_Witness ==
    \E t \in Threads : \E u \in Threads \ {t} :
       /\ pc[t] = "setValidator" /\ this[t] = "A"
       /\ pc[u] = "lockBinding" /\ this[u] = "B" /\ binding[u] = "A"
       /\ value["B"] # value["A"]

\* The queue holds no identifier twice, and the keys of the map with the
\* identifiers in the queue are exactly 0 .. next - 1.
Accounted(map, queue, next) ==
    /\ \A i, j \in DOMAIN queue : queue[i] = queue[j] => i = j
    /\ DOMAIN map \cup Range(queue) = 0 .. next - 1

\* C20: before and after every operation m_availableIDs holds no identifier
\* twice and the keys of m_callbacks together with the identifiers in
\* m_availableIDs are exactly 0 .. nextCallbackID - 1; and no operation
\* decreases nextCallbackID.
C20_IdentifiersAccountedFor ==
    [][\A p \in Props :
          /\ Accounted(callbacks[p], availableIDs[p], nextCallbackID[p])
          /\ Accounted(callbacks'[p], availableIDs'[p], nextCallbackID'[p])
          /\ nextCallbackID'[p] >= nextCallbackID[p]]_vars

\* Three identifiers were minted; an add reused a released one, two are in
\* use and one is released.
C20_Witness ==
    /\ IsAdd(log)
    /\ log[1].id < nextCallbackID[log[1].p] - 1
    /\ nextCallbackID[log[1].p] = Cardinality(DOMAIN callbacks[log[1].p]) + 1
    /\ Len(availableIDs[log[1].p]) = 1
    /\ Cardinality(DOMAIN callbacks[log[1].p]) = 2

====
